---- MODULE Spec2Model ----
(***************************************************************************)
(* Workflow execution engine (app/workflows/engine.py, WorkflowWorker) and *)
(* the workflow model it runs (app/workflows/schemas.py).                  *)
(*                                                                         *)
(* The worker thread walks run() -> _execute_workflow() -> _execute_task();*)
(* the GUI thread may call stop() between any two steps of the worker.     *)
(* Wall-clock reads (datetime.utcnow) are modelled by a logical clock that *)
(* ticks at every read.                                                    *)
(***************************************************************************)
EXTENDS Integers, Sequences, FiniteSets, TLC

\* Largest number of tasks in a workflow of the model.
MaxTasks == 3

\* WorkflowTask.priority: Field(default=1, ge=1, le=10)
DefaultPriority == 1

VARIABLES
    tasks,            \* self.workflow.tasks: the validated task list
    pc,               \* position of the worker thread
    stop_requested,   \* self._stop_requested
    completed_tasks,  \* _execute_workflow: completed_tasks (set of task ids)
    failed_tasks,     \* _execute_workflow: failed_tasks (set of task ids)
    current,          \* index of the task being executed (0: none)
    task_results,     \* self.task_results: task id -> TaskResult status
    steps,            \* Task rows of the database, in insertion order
    scan,             \* the Scan row of this run
    final_status,     \* run(): local final_status
    events,           \* signals emitted so far, in order
    now,              \* logical clock
    stop_at,          \* phase of the run in which stop() was called
    stop_on_failure,  \* self.workflow.stop_on_failure
    input,            \* arguments of the function under study (function specs)
    output            \* its return value, or the error it raised

\* what no step of a run changes: the workflow's settings and the
\* arguments and result of the function specifications
static == <<stop_on_failure, input, output>>

vars == <<tasks, pc, stop_requested, completed_tasks, failed_tasks, current,
          task_results, steps, scan, final_status, events, now, stop_at,
          stop_on_failure, input, output>>

----------------------------------------------------------------------------
(* Workflow model and load-time validation (schemas.py)                    *)

NoResult == "none"

TaskIdsOf(v) == {v[i].task_id : i \in DOMAIN v}

\* validate_task_dependencies: every depends_on entry names a task of the list
validate_task_dependencies(v) ==
    \A i \in DOMAIN v : \A dep_id \in v[i].depends_on : dep_id \in TaskIdsOf(v)

\* deps = {task.task_id: task.depends_on for task in v}; a later task with the
\* same id overwrites an earlier one
DepsMap(v) ==
    [id \in TaskIdsOf(v) |->
        LET last == CHOOSE i \in DOMAIN v :
                        /\ v[i].task_id = id
                        /\ \A j \in DOMAIN v : v[j].task_id = id => j <= i
        IN v[last].depends_on]

\* a set of task ids as a list in ascending order
RECURSIVE SetToSeq(_)
SetToSeq(S) ==
    IF S = {} THEN <<>>
    ELSE LET m == CHOOSE x \in S : \A y \in S : x <= y
         IN <<m>> \o SetToSeq(S \ {m})

RECURSIVE has_circular_dependency(_, _, _, _)
RECURSIVE visit_dependencies(_, _, _, _)

\* the for-loop of has_circular_dependency over deps.get(task_id, [])
visit_dependencies(ds, visited, rec_stack, deps) ==
    IF ds = <<>>
    THEN [found |-> FALSE, visited |-> visited, rec_stack |-> rec_stack]
    ELSE LET dep == Head(ds) IN
         IF dep \notin visited
         THEN LET r == has_circular_dependency(dep, visited, rec_stack, deps) IN
              IF r.found THEN r
              ELSE visit_dependencies(Tail(ds), r.visited, r.rec_stack, deps)
         ELSE IF dep \in rec_stack
              THEN [found |-> TRUE, visited |-> visited, rec_stack |-> rec_stack]
              ELSE visit_dependencies(Tail(ds), visited, rec_stack, deps)

has_circular_dependency(task_id, visited, rec_stack, deps) ==
    LET v1 == visited \cup {task_id}
        r1 == rec_stack \cup {task_id}
        ds == IF task_id \in DOMAIN deps THEN SetToSeq(deps[task_id]) ELSE <<>>
        r  == visit_dependencies(ds, v1, r1, deps)
    IN IF r.found THEN r
       ELSE [found |-> FALSE, visited |-> r.visited,
             rec_stack |-> r.rec_stack \ {task_id}]

\* the outer loop of validate_no_circular_dependencies over the task list
RECURSIVE circular_from(_, _, _, _, _)
circular_from(v, i, visited, rec_stack, deps) ==
    IF i > Len(v) THEN FALSE
    ELSE IF v[i].task_id \in visited
         THEN circular_from(v, i + 1, visited, rec_stack, deps)
         ELSE LET r == has_circular_dependency(v[i].task_id, visited, rec_stack, deps)
              IN IF r.found THEN TRUE
                 ELSE circular_from(v, i + 1, r.visited, r.rec_stack, deps)

\* validate_no_circular_dependencies accepts the list
validate_no_circular_dependencies(v) ==
    ~circular_from(v, 1, {}, {}, DepsMap(v))

\* WorkflowDefinition accepts the task list (min_items=1 and both validators)
AcceptedTasks(v) ==
    /\ Len(v) >= 1
    /\ validate_task_dependencies(v)
    /\ validate_no_circular_dependencies(v)

----------------------------------------------------------------------------
(* Dependency scheduler (engine.py)                                        *)

RECURSIVE IndicesFrom(_, _)
IndicesFrom(i, n) == IF i > n THEN <<>> ELSE <<i>> \o IndicesFrom(i + 1, n)

\* _get_ready_tasks: indices, in declaration order, of the tasks not yet
\* processed whose every dependency is in completed (and none in failed)
\* deps_satisfied without the "dep_id not in completed" test (166-168)
deps_satisfied_without_completed_test(t, completed, failed) ==
    \A dep_id \in t.depends_on : dep_id \notin failed

\* deps_satisfied where a failed dependency counts as processed
deps_satisfied_counting_failed(t, completed, failed) ==
    \A dep_id \in t.depends_on : dep_id \in completed \cup failed

deps_satisfied(t, completed, failed) ==
    \A dep_id \in t.depends_on : dep_id \notin failed /\ dep_id \in completed

\* is_ready without the "task_id in failed" half of the processed test (156)
is_ready_without_failed_test(i, completed, failed) ==
    /\ tasks[i].task_id \notin completed
    /\ deps_satisfied(tasks[i], completed, failed)

is_ready(i, completed, failed) ==
    /\ tasks[i].task_id \notin completed
    /\ tasks[i].task_id \notin failed
    /\ deps_satisfied(tasks[i], completed, failed)

_get_ready_tasks(completed, failed) ==
    SelectSeq(IndicesFrom(1, Len(tasks)), LAMBDA i : is_ready(i, completed, failed))

\* ready_tasks.sort(key=priority, reverse=True): stable, highest priority first
RECURSIVE InsertByPriority(_, _)
InsertByPriority(sorted, i) ==
    IF sorted = <<>> THEN <<i>>
    ELSE IF tasks[Head(sorted)].priority >= tasks[i].priority
         THEN <<Head(sorted)>> \o InsertByPriority(Tail(sorted), i)
         ELSE <<i>> \o sorted

RECURSIVE SortByPriority(_)
SortByPriority(s) ==
    IF s = <<>> THEN <<>>
    ELSE InsertByPriority(SortByPriority(SubSeq(s, 1, Len(s) - 1)), s[Len(s)])

\* remaining = [t for t in tasks if t.task_id not in completed and not in failed]
remaining(completed, failed) ==
    SelectSeq(IndicesFrom(1, Len(tasks)),
              LAMBDA i : tasks[i].task_id \notin completed
                         /\ tasks[i].task_id \notin failed)

----------------------------------------------------------------------------
(* Execution driver (engine.py)                                            *)

Event(kind, task_id, info, value) ==
    [kind |-> kind, task_id |-> task_id, info |-> info, value |-> value]

\* int(((len(completed_tasks) + len(failed_tasks)) / total_tasks) * 100)
progress_of(completed, failed) ==
    ((Cardinality(completed) + Cardinality(failed)) * 100) \div Len(tasks)

\* the index of the step row created last for the task being executed
CurrentStep == Len(steps)

\* _handle_workflow_error: close the Scan row (when it exists) as failed and
\* emit workflow_completed with status failed
handle_workflow_error(evs) ==
    /\ scan' = IF scan.status = "none" THEN scan
               ELSE [status |-> "failed", completed_at |-> now]
    /\ events' = Append(evs, Event("workflow_completed", 0, "failed", 0))
    /\ now' = now + 1
    /\ pc' = "done"

\* run(), lines 38-63: create the Scan row with status running
StartRun ==
    /\ pc = "created"
    /\ scan' = [status |-> "running", completed_at |-> 0]
    /\ pc' = "poll"
    /\ UNCHANGED <<static, tasks, stop_requested, completed_tasks, failed_tasks, current,
                   task_results, steps, final_status, events, now, stop_at>>

\* _execute_workflow, lines 105-108: the loop condition and the stop check
Poll ==
    /\ pc = "poll"
    /\ pc' = IF Cardinality(completed_tasks) + Cardinality(failed_tasks) < Len(tasks)
             THEN IF stop_requested THEN "finalize" ELSE "select"
             ELSE "finalize"
    /\ UNCHANGED <<static, tasks, stop_requested, completed_tasks, failed_tasks, current,
                   task_results, steps, scan, final_status, events, now, stop_at>>

RECURSIVE DependencyFailedEvents(_)
DependencyFailedEvents(idx) ==
    IF idx = <<>> THEN <<>>
    ELSE <<Event("task_failed", tasks[Head(idx)].task_id, "Dependency failed", 0)>>
         \o DependencyFailedEvents(Tail(idx))

\* _execute_workflow, lines 111-125: no task is ready; every remaining task is
\* reported as "Dependency failed" and added to failed_tasks, then break
CloseOut ==
    /\ pc = "select"
    /\ _get_ready_tasks(completed_tasks, failed_tasks) = <<>>
    /\ LET rem == remaining(completed_tasks, failed_tasks) IN
        /\ events' = events \o DependencyFailedEvents(rem)
        /\ failed_tasks' = failed_tasks \cup {tasks[rem[k]].task_id : k \in DOMAIN rem}
    /\ pc' = "finalize"
    /\ UNCHANGED <<static, tasks, stop_requested, completed_tasks, current, task_results,
                   steps, scan, final_status, now, stop_at>>

\* ready_tasks[0] without the sort of line 128
selected_task_without_sort == Head(_get_ready_tasks(completed_tasks, failed_tasks))

\* ready_tasks[0] after the sort by priority
selected_task == Head(SortByPriority(_get_ready_tasks(completed_tasks, failed_tasks)))

\* StartTask inserting the step row without started_at
StartTask_without_started_at ==
    /\ pc = "select"
    /\ _get_ready_tasks(completed_tasks, failed_tasks) # <<>>
    /\ LET i == selected_task IN
        /\ current' = i
        /\ events' = Append(events, Event("task_started", tasks[i].task_id, "", 0))
        /\ steps' = Append(steps, [task |-> i, status |-> "running",
                                   started_at |-> 0, completed_at |-> 0])
    /\ now' = now + 1
    /\ pc' = "exec"
    /\ UNCHANGED <<static, tasks, stop_requested, completed_tasks, failed_tasks,
                   task_results, scan, final_status, stop_at>>

\* lines 127-136 and _execute_tool_task/_execute_merge_task up to the try:
\* select the task, emit task_started, insert the step row with started_at
StartTask ==
    /\ pc = "select"
    /\ _get_ready_tasks(completed_tasks, failed_tasks) # <<>>
    /\ LET i == selected_task IN
        /\ current' = i
        /\ events' = Append(events, Event("task_started", tasks[i].task_id, "", 0))
        /\ steps' = Append(steps, [task |-> i, status |-> "running",
                                   started_at |-> now, completed_at |-> 0])
    /\ now' = now + 1
    /\ pc' = "exec"
    /\ UNCHANGED <<static, tasks, stop_requested, completed_tasks, failed_tasks,
                   task_results, scan, final_status, stop_at>>

\* the end of _execute_task with return value True, then lines 138-148
TaskSucceeds ==
    /\ pc = "exec"
    /\ LET id == tasks[current].task_id IN
        /\ task_results' = [task_results EXCEPT ![id] = "completed"]
        /\ steps' = [steps EXCEPT ![CurrentStep].status = "completed",
                                  ![CurrentStep].completed_at = now]
        /\ completed_tasks' = completed_tasks \cup {id}
        /\ events' = events \o
             << Event("task_completed", id, "success", 0),
                Event("progress", 0, "", progress_of(completed_tasks \cup {id}, failed_tasks)) >>
    /\ now' = now + 1
    /\ current' = 0
    /\ pc' = "poll"
    /\ UNCHANGED <<static, tasks, stop_requested, failed_tasks, scan, final_status, stop_at>>

\* _execute_tool_task, lines 226-253 with result["success"] false: the result
\* and the step row are failed, the signal emitted is task_completed
TaskReportsFailure ==
    /\ pc = "exec"
    /\ LET id == tasks[current].task_id IN
        /\ task_results' = [task_results EXCEPT ![id] = "failed"]
        /\ steps' = [steps EXCEPT ![CurrentStep].status = "failed",
                                  ![CurrentStep].completed_at = now]
        /\ failed_tasks' = failed_tasks \cup {id}
        /\ events' = events \o
             << Event("task_completed", id, "failure", 0),
                Event("progress", 0, "", progress_of(completed_tasks, failed_tasks \cup {id})) >>
    /\ now' = now + 1
    /\ current' = 0
    /\ pc' = "poll"
    /\ UNCHANGED <<static, tasks, stop_requested, completed_tasks, scan, final_status, stop_at>>

\* TaskRaises letting the exception reach run()'s handler (93-95)
TaskRaises_aborting_run ==
    /\ pc = "exec"
    /\ task_results' = [task_results EXCEPT ![tasks[current].task_id] = "failed"]
    /\ handle_workflow_error(events)
    /\ UNCHANGED <<static, tasks, stop_requested, completed_tasks, failed_tasks, current,
                   steps, final_status, stop_at>>

\* the except branch of _execute_tool_task (255-281) / _execute_merge_task
\* (394-420): failed result, failed step row, task_failed with the error text
TaskRaises ==
    /\ pc = "exec"
    /\ LET id == tasks[current].task_id IN
        /\ task_results' = [task_results EXCEPT ![id] = "failed"]
        /\ steps' = [steps EXCEPT ![CurrentStep].status = "failed",
                                  ![CurrentStep].completed_at = now]
        /\ failed_tasks' = failed_tasks \cup {id}
        /\ events' = events \o
             << Event("task_failed", id, "error", 0),
                Event("progress", 0, "", progress_of(completed_tasks, failed_tasks \cup {id})) >>
    /\ now' = now + 1
    /\ current' = 0
    /\ pc' = "poll"
    /\ UNCHANGED <<static, tasks, stop_requested, completed_tasks, scan, final_status, stop_at>>

\* Finalize deciding from the task sets instead of the stop flag
Finalize_from_task_sets ==
    /\ pc = "finalize"
    /\ final_status' = IF Cardinality(completed_tasks) + Cardinality(failed_tasks) = Len(tasks)
                       THEN "completed" ELSE "cancelled"
    /\ pc' = "commit"
    /\ UNCHANGED <<static, tasks, stop_requested, completed_tasks, failed_tasks, current,
                   task_results, steps, scan, events, now, stop_at>>

\* run(), line 67: the final status is decided by one read of the stop flag
Finalize ==
    /\ pc = "finalize"
    /\ final_status' = IF ~stop_requested THEN "completed" ELSE "cancelled"
    /\ pc' = "commit"
    /\ UNCHANGED <<static, tasks, stop_requested, completed_tasks, failed_tasks, current,
                   task_results, steps, scan, events, now, stop_at>>

\* run(), lines 70-91: close the Scan row and emit workflow_completed
Commit ==
    /\ pc = "commit"
    /\ scan' = [status |-> final_status, completed_at |-> now]
    /\ events' = Append(events, Event("workflow_completed", 0, final_status, 0))
    /\ now' = now + 1
    /\ pc' = "done"
    /\ UNCHANGED <<static, tasks, stop_requested, completed_tasks, failed_tasks, current,
                   task_results, steps, final_status, stop_at>>

\* the phase of the run at position p: before the Scan row exists, while the
\* final status is still to be computed (line 67), or after that
PhaseOf(p) ==
    IF p = "created" THEN "before_run"
    ELSE IF p = "commit" THEN "closing"
    ELSE "running"

\* stop(): called from the GUI thread at any point of the run
Stop ==
    /\ pc # "done"
    /\ ~stop_requested
    /\ stop_requested' = TRUE
    /\ stop_at' = PhaseOf(pc)
    /\ UNCHANGED <<static, tasks, pc, completed_tasks, failed_tasks, current, task_results,
                   steps, scan, final_status, events, now>>

(* Database errors: an exception that leaves run()'s try block (93-95)     *)

\* creating the Scan row fails (44-54): no row exists for the handler to close
CreateScanFails ==
    /\ pc = "created"
    /\ handle_workflow_error(events)
    /\ UNCHANGED <<static, tasks, stop_requested, completed_tasks, failed_tasks, current,
                   task_results, steps, final_status, stop_at>>

\* inserting the step row fails (199-210 / 300-311): task_started was emitted,
\* the insert is outside the task's try block
StepInsertFails ==
    /\ pc = "select"
    /\ _get_ready_tasks(completed_tasks, failed_tasks) # <<>>
    /\ handle_workflow_error(
          Append(events, Event("task_started", tasks[selected_task].task_id, "", 0)))
    /\ UNCHANGED <<static, tasks, stop_requested, completed_tasks, failed_tasks, current,
                   task_results, steps, final_status, stop_at>>

\* updating the step row fails inside the except branch (270-277 / 409-416):
\* the failed result is stored, the row stays running, no task signal is emitted
StepUpdateFails ==
    /\ pc = "exec"
    /\ task_results' = [task_results EXCEPT ![tasks[current].task_id] = "failed"]
    /\ handle_workflow_error(events)
    /\ UNCHANGED <<static, tasks, stop_requested, completed_tasks, failed_tasks, current,
                   steps, final_status, stop_at>>

\* closing the Scan row fails (70-79)
CommitFails ==
    /\ pc = "commit"
    /\ handle_workflow_error(events)
    /\ UNCHANGED <<static, tasks, stop_requested, completed_tasks, failed_tasks, current,
                   task_results, steps, final_status, stop_at>>

----------------------------------------------------------------------------
(* Specification                                                           *)

\* a task list of n tasks with ids 1..n
MakeTasks(n, deps, prio, opt) ==
    [i \in 1..n |-> [task_id |-> i, depends_on |-> deps[i],
                     priority |-> prio[i], optional |-> opt[i],
                     task_type |-> "tool"]]

\* the choices of the optional flags of n tasks: no task, or one task, optional
OptionalChoices(n) == {[i \in 1..n |-> i = k] : k \in 0..n}

\* the accepted workflows of at most MaxTasks tasks with unique ids and
\* priorities drawn from prios
Workflows(prios) ==
    UNION { UNION { { MakeTasks(n, deps, prio, opt) :
                        prio \in [1..n -> prios], opt \in OptionalChoices(n) } :
                    deps \in {d \in [1..n -> SUBSET (1..n)] :
                                AcceptedTasks(MakeTasks(n, d, [i \in 1..n |-> DefaultPriority],
                                                        [i \in 1..n |-> FALSE]))} } :
            n \in 1..MaxTasks }

\* no function is under study
NoCall == [op |-> "none"]

\* WorkflowWorker.__init__ (26-34) for the workflow w
InitWorker(w) ==
    /\ input = NoCall
    /\ output = NoCall
    /\ tasks = w
    /\ pc = "created"
    /\ stop_requested = FALSE
    /\ completed_tasks = {}
    /\ failed_tasks = {}
    /\ current = 0
    /\ task_results = [id \in TaskIdsOf(w) |-> NoResult]
    /\ steps = <<>>
    /\ scan = [status |-> "none", completed_at |-> 0]
    /\ final_status = "none"
    /\ events = <<>>
    /\ now = 1
    /\ stop_at = "never"

\* stop_on_failure: Field(default=False)
Init ==
    /\ stop_on_failure = FALSE
    /\ \E w \in Workflows({DefaultPriority}) : InitWorker(w)

Next ==
    \/ StartRun
    \/ Poll
    \/ CloseOut
    \/ StartTask
    \/ TaskSucceeds
    \/ TaskReportsFailure
    \/ TaskRaises
    \/ Finalize
    \/ Commit
    \/ Stop
    \/ CreateScanFails
    \/ StepInsertFails
    \/ StepUpdateFails
    \/ CommitFails

Spec == Init /\ [][Next]_vars

----------------------------------------------------------------------------
(* Properties                                                              *)

TerminalKinds == {"task_completed", "task_failed"}

\* positions of the signals of the given kinds emitted for task id
EventsOf(kinds, id) ==
    {k \in DOMAIN events : events[k].kind \in kinds /\ events[k].task_id = id}

\* the step rows inserted for task id
StepsOf(id) == {k \in DOMAIN steps : tasks[steps[k].task].task_id = id}

\* the task was handed to a processor (its step row exists)
Executed(id) == StepsOf(id) # {}

\* the run was ended by _handle_workflow_error
DriverAborted ==
    \E k \in DOMAIN events :
        events[k].kind = "workflow_completed" /\ events[k].info = "failed"

\* ids of the tasks with a depends_on entry in S
DirectDependents(S) ==
    {tasks[i].task_id : i \in {j \in DOMAIN tasks : tasks[j].depends_on \cap S # {}}}

\* ids of the tasks that depend on a task of S, directly or through other tasks
RECURSIVE DependentsWithin(_, _)
DependentsWithin(S, n) ==
    IF n = 0 THEN S
    ELSE DependentsWithin(S \cup DirectDependents(S), n - 1)

Dependents(S) == DependentsWithin(DirectDependents(S), Len(tasks))

Descendants(id) == Dependents({id})

OptionalIds == {tasks[i].task_id : i \in {j \in DOMAIN tasks : tasks[j].optional}}

\* C1: dependency ordering. Every task handed to a processor had all of its
\* depends_on tasks in completed_tasks, and each of them has a completed step
\* row whose completed_at is not later than the started_at of the dependent.
C1_DependencyOrdering ==
    \A k \in DOMAIN steps :
        \A dep_id \in tasks[steps[k].task].depends_on :
            /\ dep_id \in completed_tasks
            /\ \E j \in StepsOf(dep_id) :
                  /\ steps[j].status = "completed"
                  /\ steps[j].completed_at # 0
                  /\ steps[j].completed_at <= steps[k].started_at

\* C1 witness: a task with a dependency is being executed.
C1_Witness ==
    /\ pc = "exec"
    /\ tasks[current].depends_on # {}

C3_ExactlyOnceTerminal ==
    scan.status = "completed" =>
        \A id \in TaskIdsOf(tasks) :
            /\ task_results[id] \in {"completed", "failed", "skipped", "cancelled"}
            /\ Cardinality(EventsOf(TerminalKinds, id)) = 1

\* C4 as stated: every terminal signal of a task is its only one and is
\* preceded by the task's single task_started signal.
C4_StartedBeforeTerminal ==
    \A id \in TaskIdsOf(tasks) :
        \A k \in EventsOf(TerminalKinds, id) :
            /\ Cardinality(EventsOf(TerminalKinds, id)) = 1
            /\ Cardinality(EventsOf({"task_started"}, id)) = 1
            /\ \E j \in EventsOf({"task_started"}, id) : j < k

\* C4 amended: a task has at most one task_started and at most one terminal
\* signal; a terminal signal either follows the task's task_started or is the
\* task_failed "Dependency failed" of a task that was never started; a task
\* whose processor has returned has exactly one of each, in that order.
C4_EventOrderingExecuted ==
    \A id \in TaskIdsOf(tasks) :
        LET started  == EventsOf({"task_started"}, id)
            terminal == EventsOf(TerminalKinds, id)
        IN /\ Cardinality(started) <= 1
           /\ Cardinality(terminal) <= 1
           /\ \A k \in terminal :
                 \/ \E j \in started : j < k
                 \/ /\ started = {}
                    /\ ~Executed(id)
                    /\ events[k].kind = "task_failed"
                    /\ events[k].info = "Dependency failed"
           /\ \A k \in terminal :
                 events[k].info = "Dependency failed" => started = {}
           /\ (\E k \in StepsOf(id) : steps[k].status # "running") =>
                 /\ Cardinality(started) = 1
                 /\ Cardinality(terminal) = 1

\* C4 witness: one task was executed to its terminal signal and another was
\* closed out with "Dependency failed".
C4_Witness ==
    \E a, b \in TaskIdsOf(tasks) :
        /\ Executed(a)
        /\ EventsOf(TerminalKinds, a) # {}
        /\ ~Executed(b)
        /\ EventsOf({"task_failed"}, b) # {}

\* C5: every failed task (adapter reported success=false, processor raised,
\* or dependency failed) has a task_failed signal and a failed step row,
\* in every run not ended by a driver error.
C5_FailureSurfaces ==
    ~DriverAborted =>
        \A id \in TaskIdsOf(tasks) :
            (id \in failed_tasks \/ task_results[id] = "failed") =>
                /\ EventsOf({"task_failed"}, id) # {}
                /\ \E k \in StepsOf(id) : steps[k].status = "failed"

\* C6: the Scan row is closed as completed only if no task of the run failed.
C6_CompletedOnlyWithoutFailure ==
    scan.status = "completed" =>
        /\ failed_tasks = {}
        /\ \A id \in TaskIdsOf(tasks) : task_results[id] # "failed"

C8_NoStartAfterStop ==
    [][stop_requested => ~(pc = "select" /\ pc' = "exec")]_vars

\* the Scan row had status running when stop() was called
StoppedWhileRunning == stop_at \in {"running", "closing"}

C10_OutstandingMarkedCancelled ==
    scan.status = "cancelled" =>
        \A id \in TaskIdsOf(tasks) :
            /\ ~Executed(id) => task_results[id] = "cancelled"
            /\ task_results[id] = "cancelled" =>
                  \A d \in Descendants(id) :
                      /\ task_results[d] = "cancelled"
                      /\ d \notin failed_tasks

----------------------------------------------------------------------------
(* stop_on_failure (schemas.py 297-300)                                    *)

\* the runs of every accepted workflow under either setting of stop_on_failure
InitStopOnFailure ==
    /\ stop_on_failure \in BOOLEAN
    /\ \E w \in Workflows({DefaultPriority}) : InitWorker(w)

SpecStopOnFailure == InitStopOnFailure /\ [][Next]_vars

\* C11: stop_on_failure. In a workflow with stop_on_failure = true, once a
\* non-optional task has been executed and failed no further task is handed
\* to a processor, and a run that was not stopped by stop() ends with the
\* Scan row closed as failed.
C11_StopOnFailure ==
    stop_on_failure =>
        \A k \in DOMAIN steps :
            (steps[k].status = "failed" /\ ~tasks[steps[k].task].optional) =>
                /\ \A j \in DOMAIN steps : j <= k
                /\ (pc = "done" /\ ~stop_requested) => scan.status = "failed"

----------------------------------------------------------------------------
(* Step rows (engine.py 196-221, 297-313)                                  *)

\* C12: started_at set. Every step row has a non-null started_at; while a
\* processor is at work the row of its task exists, is running and has its
\* started_at; a row closed as completed or failed, also by a processor
\* that raised, still has it, and it is not later than completed_at.
C12_StartedAtSet ==
    /\ \A k \in DOMAIN steps :
          /\ steps[k].started_at # 0
          /\ steps[k].status \in {"completed", "failed"} =>
                /\ steps[k].completed_at # 0
                /\ steps[k].started_at <= steps[k].completed_at
    /\ pc = "exec" =>
          /\ steps # <<>>
          /\ steps[CurrentStep].task = current
          /\ steps[CurrentStep].status = "running"
          /\ steps[CurrentStep].started_at # 0

\* C12 witness: a task whose processor raised has a failed step row with its
\* started_at, and another task's row is completed.
C12_Witness ==
    \E k, j \in DOMAIN steps :
        /\ steps[k].status = "failed"
        /\ steps[k].started_at # 0
        /\ \E e \in EventsOf({"task_failed"}, tasks[steps[k].task].task_id) :
              events[e].info = "error"
        /\ steps[j].status = "completed"

----------------------------------------------------------------------------
(* Processor tasks: _execute_processor_task of the later engine, which is  *)
(* exercised by tests/workflows/test_engine_processors.py                  *)

\* Largest number of tasks in a workflow with processor tasks.
MaxProcessorTasks == 2

\* TaskType values whose tasks are run by a built-in processor
ProcessorTypes == {"file_output", "json_aggregate", "web_crawl"}

\* error texts a processor reports or raises with
ProcessorErrors == {"Test error: file not found", "Processor crashed"}

\* what processor.execute(task_def, previous_results) may return
ProcessorResults ==
    {[success |-> TRUE, error |-> ""]}
        \cup {[success |-> FALSE, error |-> e] : e \in ProcessorErrors}

\* the record of one call of processor.execute and of how it ended
ProcessorCall(i, raised, result) ==
    [op |-> "processor.execute", processor |-> tasks[i].task_type,
     task_def |-> tasks[i], previous_results |-> task_results,
     raised |-> raised, result |-> result]

\* the rest of _execute_processor_task once the processor has ended with
\* result: Task Result, step row, signal, return value and lines 138-148
close_processor_task(result) ==
    LET id == tasks[current].task_id
        st == IF result.success THEN "completed" ELSE "failed"
    IN /\ task_results' = [task_results EXCEPT ![id] = st]
       /\ steps' = [steps EXCEPT ![CurrentStep].status = st,
                                 ![CurrentStep].completed_at = now]
       /\ completed_tasks' = IF result.success THEN completed_tasks \cup {id}
                              ELSE completed_tasks
       /\ failed_tasks' = IF result.success THEN failed_tasks
                           ELSE failed_tasks \cup {id}
       /\ events' = events \o
             << IF result.success THEN Event("task_completed", id, "success", 0)
                ELSE Event("task_failed", id, result.error, 0),
                Event("progress", 0, "",
                      progress_of(completed_tasks', failed_tasks')) >>
       /\ now' = now + 1
       /\ current' = 0
       /\ pc' = "poll"

\* ProcessorReturns reporting every result as completed
ProcessorReturns_always_completed ==
    /\ pc = "exec"
    /\ tasks[current].task_type \in ProcessorTypes
    /\ \E result \in ProcessorResults :
          /\ output' = ProcessorCall(current, FALSE, result)
          /\ close_processor_task([success |-> TRUE, error |-> ""])
    /\ UNCHANGED <<stop_on_failure, input, tasks, stop_requested, scan,
                   final_status, stop_at>>

\* the processor returns a result: success, or success=false with an error
ProcessorReturns ==
    /\ pc = "exec"
    /\ tasks[current].task_type \in ProcessorTypes
    /\ \E result \in ProcessorResults :
          /\ output' = ProcessorCall(current, FALSE, result)
          /\ close_processor_task(result)
    /\ UNCHANGED <<stop_on_failure, input, tasks, stop_requested, scan,
                   final_status, stop_at>>

\* the processor raises: the task fails with the text of the exception
ProcessorRaises ==
    /\ pc = "exec"
    /\ tasks[current].task_type \in ProcessorTypes
    /\ \E e \in ProcessorErrors :
          /\ output' = ProcessorCall(current, TRUE, [success |-> FALSE, error |-> e])
          /\ close_processor_task([success |-> FALSE, error |-> e])
    /\ UNCHANGED <<stop_on_failure, input, tasks, stop_requested, scan,
                   final_status, stop_at>>

\* a tool task ends in one of the three ways of _execute_tool_task
ToolTaskEnds ==
    /\ pc = "exec"
    /\ tasks[current].task_type = "tool"
    /\ (TaskSucceeds \/ TaskReportsFailure \/ TaskRaises)

\* the task list w with the task types given by types
TypedTasks(w, types) == [i \in DOMAIN w |-> [w[i] EXCEPT !.task_type = types[i]]]

\* the accepted workflows of at most MaxProcessorTasks tasks, each a tool
\* task or a processor task
TypedWorkflows ==
    UNION { { TypedTasks(MakeTasks(n, deps, [i \in 1..n |-> DefaultPriority],
                                   [i \in 1..n |-> FALSE]), types) :
                types \in [1..n -> {"tool"} \cup ProcessorTypes],
                deps \in {d \in [1..n -> SUBSET (1..n)] :
                            AcceptedTasks(MakeTasks(n, d, [i \in 1..n |-> DefaultPriority],
                                                    [i \in 1..n |-> FALSE]))} } :
            n \in 1..MaxProcessorTasks }

InitProcessor ==
    /\ stop_on_failure = FALSE
    /\ \E w \in TypedWorkflows : InitWorker(w)

NextProcessor ==
    \/ StartRun
    \/ Poll
    \/ CloseOut
    \/ StartTask
    \/ ToolTaskEnds
    \/ ProcessorReturns
    \/ ProcessorRaises
    \/ Finalize
    \/ Commit
    \/ Stop

SpecProcessor == InitProcessor /\ [][NextProcessor]_vars

----------------------------------------------------------------------------
(* Load-time validation: WorkflowDefinition(tasks=...) (schemas.py 317-357) *)

\* Largest number of tasks in a submitted task list.
MaxLoadTasks == 3

\* a submitted task list: n tasks with the ids and depends_on entries given
SubmittedTasks(n, ids, deps) ==
    [i \in 1..n |-> [task_id |-> ids[i], depends_on |-> deps[i],
                     priority |-> DefaultPriority, optional |-> FALSE,
                     task_type |-> "tool"]]

\* the error raised by the validators of the field tasks, which run in the
\* order of their definition and stop at the first that raises
validation_error(v) ==
    IF ~validate_task_dependencies(v) THEN "depends on non-existent task"
    ELSE IF ~validate_no_circular_dependencies(v) THEN "Circular dependency detected"
    ELSE "none"

\* the task lists that may be submitted: n tasks whose ids are drawn from
\* 1..n (two tasks may carry the same id) and whose depends_on entries are
\* drawn from 1..n+1 (n+1 is the id of no task)
InitLoad ==
    /\ \E n \in 1..MaxLoadTasks :
          \E ids \in [1..n -> 1..n], deps \in [1..n -> SUBSET (1..(n + 1))] :
              tasks = SubmittedTasks(n, ids, deps)
    /\ pc = "submitted"
    /\ input = NoCall
    /\ output = NoCall
    /\ stop_on_failure = FALSE
    /\ stop_requested = FALSE
    /\ completed_tasks = {}
    /\ failed_tasks = {}
    /\ current = 0
    /\ task_results = <<>>
    /\ steps = <<>>
    /\ scan = [status |-> "none", completed_at |-> 0]
    /\ final_status = "none"
    /\ events = <<>>
    /\ now = 1
    /\ stop_at = "never"

\* the validators accept: the workflow exists and a worker is built for it
LoadAccepts ==
    /\ pc = "submitted"
    /\ AcceptedTasks(tasks)
    /\ output' = [op |-> "WorkflowDefinition", error |-> "none"]
    /\ task_results' = [id \in TaskIdsOf(tasks) |-> NoResult]
    /\ pc' = "created"
    /\ UNCHANGED <<stop_on_failure, input, tasks, stop_requested, completed_tasks,
                   failed_tasks, current, steps, scan, final_status, events, now,
                   stop_at>>

\* a validator raises: no workflow, no worker, no Scan row
LoadRejects ==
    /\ pc = "submitted"
    /\ ~AcceptedTasks(tasks)
    /\ output' = [op |-> "WorkflowDefinition", error |-> validation_error(tasks)]
    /\ pc' = "rejected"
    /\ UNCHANGED <<stop_on_failure, input, tasks, stop_requested, completed_tasks,
                   failed_tasks, current, task_results, steps, scan, final_status,
                   events, now, stop_at>>

NextLoad == LoadAccepts \/ LoadRejects

SpecLoad == InitLoad /\ [][NextLoad]_vars

\* the ids reachable from the ids of S along depends_on entries, where the
\* entries of every task carrying an id count
RECURSIVE ReachableWithin(_, _, _)
ReachableWithin(v, S, n) ==
    IF n = 0 THEN S
    ELSE ReachableWithin(v,
            S \cup UNION {v[i].depends_on : i \in {j \in DOMAIN v : v[j].task_id \in S}},
            n - 1)

\* the depends_on entries of the task list contain a cycle
HasCycle(v) ==
    \E i \in DOMAIN v :
        v[i].task_id \in ReachableWithin(v, v[i].depends_on, Len(v))

\* C14: DAG validity. The dependency graph of every accepted workflow is
\* acyclic, and every task list whose depends_on entries contain a cycle is
\* rejected, with the circular-dependency error when all of its references
\* are known.
C14_DAGValidity ==
    /\ pc = "created" => ~HasCycle(tasks)
    /\ (pc # "submitted" /\ HasCycle(tasks)) =>
          /\ pc = "rejected"
          /\ validate_task_dependencies(tasks) =>
                output.error = "Circular dependency detected"

\* C15: unique task ids. No accepted workflow has two tasks with the same
\* task_id, so each declared task has its own entry of the Task Result map.
C15_UniqueTaskIds ==
    pc = "created" =>
        /\ \A i, j \in DOMAIN tasks : tasks[i].task_id = tasks[j].task_id => i = j
        /\ Cardinality(DOMAIN task_results) = Len(tasks)

----------------------------------------------------------------------------
(* Parameter resolver: _substitute_parameters (engine.py 558-604)          *)
(* A Python str is a sequence of characters; a Python value is a record    *)
(* tagged with its type.                                                   *)

\* Largest number of segments after the task id in a reference.
MaxPathLen == 2

NoneValue == [tag |-> "none"]
IntValue(n) == [tag |-> "int", n |-> n]
StrValue(chars) == [tag |-> "str", chars |-> chars]
ListValue(items) == [tag |-> "list", items |-> items]
DictValue(map) == [tag |-> "dict", map |-> map]

\* value.startswith(prefix), value.endswith(suffix)
startswith(value, prefix) ==
    /\ Len(value) >= Len(prefix)
    /\ SubSeq(value, 1, Len(prefix)) = prefix

endswith(value, suffix) ==
    /\ Len(value) >= Len(suffix)
    /\ SubSeq(value, Len(value) - Len(suffix) + 1, Len(value)) = suffix

\* s.split(sep) for a one-character separator
RECURSIVE split(_, _)
split(s, sep) ==
    IF \A i \in DOMAIN s : s[i] # sep THEN <<s>>
    ELSE LET i == CHOOSE k \in DOMAIN s : s[k] = sep /\ \A j \in 1..(k - 1) : s[j] # sep
         IN <<SubSeq(s, 1, i - 1)>> \o split(SubSeq(s, i + 1, Len(s)), sep)

\* lines 575-581: walk the path; None when a part is not found
RECURSIVE navigate(_, _)
navigate(data, parts) ==
    IF parts = <<>> THEN data
    ELSE IF data.tag = "dict" /\ Head(parts) \in DOMAIN data.map
         THEN navigate(data.map[Head(parts)], Tail(parts))
         ELSE NoneValue

\* lines 565-590: the value a reference string is replaced by
resolve_reference(value, results) ==
    LET ref_path == SubSeq(value, 3, Len(value) - 1)
        parts == split(ref_path, ".")
        task_id == parts[1]
    IN IF task_id \in DOMAIN results
       THEN LET data == navigate(results[task_id].output, Tail(parts))
            IN IF data.tag # "none" THEN data ELSE ListValue(<<>>)
       ELSE ListValue(<<>>)

RECURSIVE substitute_value(_, _)
RECURSIVE _substitute_parameters(_, _)

\* one iteration of the loop over params.items()
substitute_value(value, results) ==
    IF /\ value.tag = "str"
       /\ startswith(value.chars, <<"$", "{">>)
       /\ endswith(value.chars, <<"}">>)
    THEN resolve_reference(value.chars, results)
    ELSE IF value.tag = "list"
    THEN ListValue([k \in DOMAIN value.items |->
                      IF value.items[k].tag = "dict"
                      THEN DictValue(_substitute_parameters(value.items[k].map, results))
                      ELSE value.items[k]])
    ELSE IF value.tag = "dict"
    THEN DictValue(_substitute_parameters(value.map, results))
    ELSE value

_substitute_parameters(params, results) ==
    [key \in DOMAIN params |-> substitute_value(params[key], results)]

\* the text "${task_id.seg1.seg2...}"
RECURSIVE DottedPath(_)
DottedPath(path) ==
    IF path = <<>> THEN <<>> ELSE <<".">> \o Head(path) \o DottedPath(Tail(path))

Reference(task_id, path) == <<"$", "{">> \o task_id \o DottedPath(path) \o <<"}">>

\* keys of task outputs, and the values they hold
OutputKeys == {<<"x">>, <<"y">>}

LeafValues ==
    {NoneValue, IntValue(0), StrValue(<<"a">>), ListValue(<<>>),
     ListValue(<<StrValue(<<"a">>)>>)}

DictsOver(values) ==
    {DictValue(m) : m \in UNION {[ks -> values] : ks \in SUBSET OutputKeys}}

\* TaskResult.output: a dict, nested one level deep
TaskOutputs == DictsOver(LeafValues \cup DictsOver(LeafValues))

\* the paths of at most n segments
RECURSIVE PathsUpTo(_)
PathsUpTo(n) ==
    IF n = 0 THEN {<<>>}
    ELSE LET shorter == PathsUpTo(n - 1)
         IN shorter \cup {<<k>> \o q : k \in OutputKeys, q \in {r \in shorter : Len(r) = n - 1}}

\* task ids: validate_task_id (schemas.py 201-207) allows periods
ResultTaskIds == {<<"t">>, <<"a", ".", "b">>}

\* the state of a module in which no workflow is running
IdleDriver ==
    /\ stop_on_failure = FALSE
    /\ stop_requested = FALSE
    /\ completed_tasks = {}
    /\ failed_tasks = {}
    /\ current = 0
    /\ steps = <<>>
    /\ scan = [status |-> "none", completed_at |-> 0]
    /\ final_status = "none"
    /\ events = <<>>
    /\ now = 1
    /\ stop_at = "never"

driver_vars == <<stop_on_failure, stop_requested, completed_tasks, failed_tasks,
                 current, steps, scan, final_status, events, now, stop_at>>

\* one completed task with some output, and the parameters {"p": "${...}"}
\* referring to it, to a path of it, or to a task without result
InitResolve ==
    /\ IdleDriver
    /\ tasks = <<>>
    /\ pc = "call"
    /\ output = NoCall
    /\ \E done \in ResultTaskIds, out \in TaskOutputs :
          task_results = [id \in {done} |-> [status |-> "completed", output |-> out]]
    /\ \E task_id \in ResultTaskIds \cup {<<"u">>}, path \in PathsUpTo(MaxPathLen) :
          input = [op |-> "_substitute_parameters",
                   ref |-> [task_id |-> task_id, path |-> path],
                   params |-> [key \in {<<"p">>} |-> StrValue(Reference(task_id, path))]]

Substitute ==
    /\ pc = "call"
    /\ input.op = "_substitute_parameters"
    /\ output' = [op |-> "_substitute_parameters",
                  substituted |-> _substitute_parameters(input.params, task_results)]
    /\ pc' = "returned"
    /\ UNCHANGED <<driver_vars, tasks, task_results, input>>

NextResolve == Substitute

SpecResolve == InitResolve /\ [][NextResolve]_vars

\* the value at results[task_id].output.path, if there is one
RECURSIVE ValueAt(_, _)
ValueAt(data, path) ==
    IF path = <<>> THEN [found |-> TRUE, value |-> data]
    ELSE IF data.tag = "dict" /\ Head(path) \in DOMAIN data.map
         THEN ValueAt(data.map[Head(path)], Tail(path))
         ELSE [found |-> FALSE, value |-> NoneValue]

Referenced ==
    IF input.ref.task_id \in DOMAIN task_results
    THEN ValueAt(task_results[input.ref.task_id].output, input.ref.path)
    ELSE [found |-> FALSE, value |-> NoneValue]

\* C16: parameter resolution. The parameter "${t.x.y}" is replaced by the
\* value v at results[t].output.x.y, whatever v is, and by the empty list
\* when t has no result or a segment of the path is missing.
C16_ParameterResolution ==
    pc = "returned" =>
        output.substituted[<<"p">>] =
            IF Referenced.found THEN Referenced.value ELSE ListValue(<<>>)

----------------------------------------------------------------------------
(* Result merger: _merge_data and _save_merged_results (engine.py 422-556) *)
(* A record of merged data is a function from field names to values; the   *)
(* dict merged is the sequence of its entries in insertion order.          *)

\* Largest number of items in the data of the merge sources together.
MaxItems == 3

Range(seq) == {seq[i] : i \in DOMAIN seq}

\* list(a_set): the elements in an order the interpreter chooses
Orderings(S) == {o \in [1..Cardinality(S) -> S] : Range(o) = S}

\* "not key" for the value of item.get(dedupe_key)
Falsy(v) ==
    \/ v.tag = "none"
    \/ v.tag = "str" /\ v.chars = ""
    \/ v.tag = "list" /\ v.items = <<>>

\* item.get(field)
get(item, field) == IF field \in DOMAIN item THEN item[field] ELSE NoneValue

\* set(v) if isinstance(v, list) else {v}
as_set(v) == IF v.tag = "list" THEN Range(v.items) ELSE {v.chars}

\* the union of lines 447-456 keeping only the element its list starts with
combine_list_field_first_of_union(cur, item, field) ==
    IF field \in DOMAIN item /\ field \in DOMAIN cur
    THEN {[cur EXCEPT ![field] = ListValue(<<o[1]>>)] :
            o \in Orderings(as_set(cur[field]) \cup as_set(item[field]))}
    ELSE {cur}

\* lines 447-456 for one of the fields ips, asns: the possible values of the
\* merged record after the union
combine_list_field(cur, item, field) ==
    IF field \in DOMAIN item /\ field \in DOMAIN cur
    THEN {[cur EXCEPT ![field] = ListValue(o)] :
            o \in Orderings(as_set(cur[field]) \cup as_set(item[field]))}
    ELSE {cur}

\* lines 458-461: fields of item the merged record does not have yet
update_other_fields(cur, item, dedupe_key) ==
    [f \in DOMAIN cur \cup (DOMAIN item \ {dedupe_key}) |->
        IF f \in DOMAIN cur THEN cur[f] ELSE item[f]]

\* lines 445-461: the possible values of merged[key] after combining item
combine_into(cur, item, dedupe_key) ==
    { update_other_fields(c2, item, dedupe_key) :
        c2 \in UNION { combine_list_field(c1, item, "asns") :
                        c1 \in combine_list_field(cur, item, "ips") } }

\* merged[key] = record: a new key is appended, an existing one keeps its place
put(merged, key, record) ==
    IF \E k \in DOMAIN merged : merged[k].key = key
    THEN [k \in DOMAIN merged |->
            IF merged[k].key = key THEN [key |-> key, item |-> record] ELSE merged[k]]
    ELSE Append(merged, [key |-> key, item |-> record])

\* lines 433-472 for one item of the source task_id: the possible values of
\* merged after it
merge_item(merged, task_id, item, dedupe_key, strategy) ==
    IF item.tag # "dict" THEN {merged}
    ELSE LET key == get(item.map, dedupe_key) IN
         IF Falsy(key) THEN {merged}
         ELSE IF strategy = "combine"
         THEN IF \E k \in DOMAIN merged : merged[k].key = <<key.chars>>
              THEN LET k == CHOOSE j \in DOMAIN merged : merged[j].key = <<key.chars>>
                   IN {put(merged, <<key.chars>>, c) :
                         c \in combine_into(merged[k].item, item.map, dedupe_key)}
              ELSE {put(merged, <<key.chars>>, item.map)}
         ELSE IF strategy = "replace"
         THEN {put(merged, <<key.chars>>, item.map)}
         ELSE IF strategy = "append"
         THEN {put(merged, <<key.chars, "_", task_id>>, item.map)}
         ELSE {merged}

\* the loop over the items of one source (lines 427-472)
RECURSIVE merge_items(_, _, _, _, _)
merge_items(mergeds, task_id, items, dedupe_key, strategy) ==
    IF items = <<>> THEN mergeds
    ELSE merge_items(
            UNION {merge_item(m, task_id, Head(items), dedupe_key, strategy) : m \in mergeds},
            task_id, Tail(items), dedupe_key, strategy)

\* the loop over the sources (line 426); data that is not a list is skipped
RECURSIVE merge_sources(_, _, _, _)
merge_sources(mergeds, source_results, dedupe_key, strategy) ==
    IF source_results = <<>> THEN mergeds
    ELSE LET source == Head(source_results)
             after  == IF source.data.tag # "list" THEN mergeds
                       ELSE merge_items(mergeds, source.task_id, source.data.items,
                                        dedupe_key, strategy)
         IN merge_sources(after, Tail(source_results), dedupe_key, strategy)

\* _merge_data: the values list(merged.values()) may have
_merge_data(source_results, dedupe_key, strategy) ==
    { [k \in DOMAIN m |-> m[k].item] :
        m \in merge_sources({<<>>}, source_results, dedupe_key, strategy) }

\* the order of sorted() on the strings of the model
SortKey ==
    [a \in {"", "1", "2", "3", "7", "8", "a", "b", "p", "q"} |->
        CASE a = ""  -> 0 [] a = "1" -> 1 [] a = "2" -> 2 [] a = "3" -> 3
          [] a = "7" -> 4 [] a = "8" -> 5 [] a = "a" -> 6 [] a = "b" -> 7
          [] a = "p" -> 8 [] a = "q" -> 9]

RECURSIVE insert_sorted(_, _)
insert_sorted(sorted_list, a) ==
    IF sorted_list = <<>> THEN <<a>>
    ELSE IF SortKey[Head(sorted_list)] <= SortKey[a]
         THEN <<Head(sorted_list)>> \o insert_sorted(Tail(sorted_list), a)
         ELSE <<a>> \o sorted_list

\* sorted(a_list)
RECURSIVE sorted(_)
sorted(list) ==
    IF list = <<>> THEN <<>>
    ELSE insert_sorted(sorted(SubSeq(list, 1, Len(list) - 1)), list[Len(list)])

\* sorted(a_set)
RECURSIVE sorted_set(_)
sorted_set(S) ==
    IF S = {} THEN <<>>
    ELSE LET m == CHOOSE x \in S : \A y \in S : SortKey[x] <= SortKey[y]
         IN <<m>> \o sorted_set(S \ {m})

\* lines 512-526: the names, in the order of merged_data
RECURSIVE subdomains_of(_)
subdomains_of(merged_data) ==
    IF merged_data = <<>> THEN <<>>
    ELSE (IF "name" \in DOMAIN Head(merged_data)
          THEN <<Head(merged_data)["name"].chars>> ELSE <<>>)
         \o subdomains_of(Tail(merged_data))

\* the union of the field of every record that has it (ips, asns)
collected(merged_data, field) ==
    UNION {as_set(merged_data[k][field]) :
             k \in {j \in DOMAIN merged_data : field \in DOMAIN merged_data[j]}}

\* _save_merged_results: the lines written to each file; a file that is not
\* written is absent
_save_merged_results(merged_data) ==
    LET subdomains == subdomains_of(merged_data)
        ips  == collected(merged_data, "ips")
        asns == collected(merged_data, "asns")
        names == {"combined_json"}
                   \cup (IF subdomains # <<>> THEN {"subdomains_list"} ELSE {})
                   \cup (IF ips # {} THEN {"ips_list"} ELSE {})
                   \cup (IF asns # {} THEN {"asns_list"} ELSE {})
    IN [f \in names |->
          IF f = "combined_json" THEN merged_data
          ELSE IF f = "subdomains_list" THEN sorted(subdomains)
          ELSE IF f = "ips_list" THEN sorted_set(ips)
          ELSE sorted_set(asns)]

\* the items a source may hold: subdomain records, a record with an empty
\* name, and an item that is not a dict
MergeItems ==
    { DictValue(("name" :> StrValue("a")) @@ ("ips" :> ListValue(<<"1">>))
                @@ ("source" :> StrValue("p"))),
      DictValue(("name" :> StrValue("a")) @@ ("ips" :> ListValue(<<"2">>))
                @@ ("asns" :> ListValue(<<"7">>)) @@ ("source" :> StrValue("q"))),
      DictValue(("name" :> StrValue("a")) @@ ("ips" :> StrValue("3"))
                @@ ("asns" :> ListValue(<<"8">>))),
      DictValue(("name" :> StrValue("b")) @@ ("ips" :> ListValue(<<"1", "2">>))
                @@ ("asns" :> ListValue(<<"7">>)) @@ ("source" :> StrValue("p"))),
      DictValue(("name" :> StrValue("")) @@ ("ips" :> ListValue(<<"1">>))),
      StrValue("a") }

\* the data collected from one source: a list of n items, or an output that
\* is not a list
SourceData(n) ==
    {ListValue(l) : l \in [1..n -> MergeItems]}
        \cup (IF n = 0 THEN {DictValue(<<>>)} ELSE {})

InitMerge ==
    /\ IdleDriver
    /\ tasks = <<>>
    /\ task_results = <<>>
    /\ pc = "call"
    /\ output = NoCall
    /\ \E np \in 0..MaxItems : \E nq \in 0..(MaxItems - np) :
       \E p \in SourceData(np), q \in SourceData(nq),
          dedupe_key \in {"name", "source"},
          strategy \in {"combine", "replace", "append"} :
          input = [op |-> "_merge_data",
                   source_results |-> << [task_id |-> "p", data |-> p],
                                         [task_id |-> "q", data |-> q] >>,
                   dedupe_key |-> dedupe_key, strategy |-> strategy]

\* lines 340-345: merged_data = self._merge_data(...)
MergeData ==
    /\ pc = "call"
    /\ input.op = "_merge_data"
    /\ \E merged_data \in _merge_data(input.source_results, input.dedupe_key,
                                       input.strategy) :
          output' = [op |-> "_merge_data", merged_data |-> merged_data,
                     repeated |-> FALSE, again |-> <<>>]
    /\ pc' = "merged"
    /\ UNCHANGED <<driver_vars, tasks, task_results, input>>

\* the same merge task run once more on the same source results
MergeDataAgain ==
    /\ pc = "merged"
    /\ ~output.repeated
    /\ \E merged_data \in _merge_data(input.source_results, input.dedupe_key,
                                       input.strategy) :
          output' = [output EXCEPT !.repeated = TRUE, !.again = merged_data]
    /\ UNCHANGED <<driver_vars, tasks, task_results, input, pc>>

\* lines 356-361: output_files = self._save_merged_results(...)
SaveMergedResults ==
    /\ pc = "merged"
    /\ output' = [op |-> "_save_merged_results", merged_data |-> output.merged_data,
                  files |-> _save_merged_results(output.merged_data)]
    /\ pc' = "saved"
    /\ UNCHANGED <<driver_vars, tasks, task_results, input>>

\* lines 363-392: the files were written; the TaskResult is completed with
\* merged_data, the paths of the files and item_count = len(merged_data)
MergeTaskCompletes ==
    /\ pc = "saved"
    /\ output' = [op |-> "_execute_merge_task", status |-> "completed",
                  merged_data |-> output.merged_data,
                  output_files |-> DOMAIN output.files,
                  item_count |-> Len(output.merged_data)]
    /\ pc' = "completed"
    /\ UNCHANGED <<driver_vars, tasks, task_results, input>>

\* an open() or write of _save_merged_results raises: the except of line 554
\* logs and re-raises, and the except branch of _execute_merge_task
\* (394-420) stores a failed TaskResult with output {}
SaveMergedResultsFails ==
    /\ pc = "merged"
    /\ output' = [op |-> "_execute_merge_task", status |-> "failed",
                  merged_data |-> <<>>, output_files |-> {}, item_count |-> 0]
    /\ pc' = "failed"
    /\ UNCHANGED <<driver_vars, tasks, task_results, input>>

NextMerge ==
    \/ MergeData
    \/ MergeDataAgain
    \/ SaveMergedResults
    \/ MergeTaskCompletes
    \/ SaveMergedResultsFails

SpecMerge == InitMerge /\ [][NextMerge]_vars

\* two records agree: the same fields, the same values, and ips and asns
\* equal as sets
SameRecord(r1, r2) ==
    /\ DOMAIN r1 = DOMAIN r2
    /\ \A f \in DOMAIN r1 :
          IF f \in {"ips", "asns"} /\ r1[f].tag = "list" /\ r2[f].tag = "list"
          THEN as_set(r1[f]) = as_set(r2[f])
          ELSE r1[f] = r2[f]

C18_SubdomainsSortedUnique ==
    (pc = "saved" /\ "subdomains_list" \in DOMAIN output.files) =>
        LET lines == output.files["subdomains_list"] IN
        /\ \A i \in DOMAIN lines : \A j \in DOMAIN lines :
              i < j => SortKey[lines[i]] <= SortKey[lines[j]]
        /\ \A i \in DOMAIN lines : \A j \in DOMAIN lines :
              i # j => lines[i] # lines[j]

----------------------------------------------------------------------------
(* Driver-level exceptions (engine.py 93-95, 606-621)                      *)

\* C19: when an exception left run()'s try block, the run is over with the
\* Scan row in status failed and its completed_at set, and the last signal
\* emitted is workflow_completed with status failed.
C19_DriverExceptionClosesRun ==
    (pc = "done" /\ DriverAborted) =>
        /\ scan.status = "failed"
        /\ scan.completed_at # 0
        /\ events[Len(events)].kind = "workflow_completed"
        /\ events[Len(events)].info = "failed"

----------------------------------------------------------------------------
(* Generic adapter: BaseTool.execute (app/tools/base.py 55-106 and         *)
(* platform-app/app/tools/base.py 57-151)                                  *)

\* Largest exit code of the subprocess.
MaxExitCode == 2

\* what the adapter's own methods and subprocess.run do in one call:
\* validate_parameters returns validate; build_command returns a command or
\* raises (masscan_adapter.py 33-36 joins the targets as strings);
\* subprocess.run returns with an exit code or raises; parse_output returns
\* or raises
AdapterCalls ==
    [validate : BOOLEAN,
     build : {"ok", "TypeError"},
     run : {[kind |-> "exit", returncode |-> c] : c \in 0..MaxExitCode}
             \cup {[kind |-> k, returncode |-> 0] :
                     k \in {"TimeoutExpired", "FileNotFoundError", "PermissionError"}},
     parse : {"ok", "ValueError"}]

\* a dict returned by execute: error and return_code are "absent" when the
\* dict has no such key, tool_missing is TRUE when the key is present;
\* spawned tells whether subprocess.run started the process
Returned(success, error, data, return_code, tool_missing, spawned) ==
    [raised |-> "none", success |-> success, error |-> error, data |-> data,
     return_code |-> return_code, tool_missing |-> tool_missing, spawned |-> spawned]

\* an exception that leaves execute
Raised(exception, spawned) ==
    [raised |-> exception, success |-> FALSE, error |-> "absent", data |-> "absent",
     return_code |-> "absent", tool_missing |-> FALSE, spawned |-> spawned]

\* app/tools/base.py, BaseTool.execute
execute_app(call) ==
    IF ~call.validate
    THEN Returned(FALSE, "Invalid parameters", "empty", "absent", FALSE, FALSE)
    ELSE IF call.build # "ok" THEN Raised(call.build, FALSE)
    ELSE IF call.run.kind = "exit"
    THEN IF call.parse = "ok"
         THEN Returned(call.run.returncode = 0, "absent", "parsed",
                       call.run.returncode, FALSE, TRUE)
         ELSE Returned(FALSE, call.parse, "empty", "absent", FALSE, TRUE)
    ELSE IF call.run.kind = "TimeoutExpired"
    THEN Returned(FALSE, "Tool execution timed out", "empty", "absent", FALSE, TRUE)
    ELSE Returned(FALSE, call.run.kind, "empty", "absent", FALSE, FALSE)

\* platform-app/app/tools/base.py, BaseTool.execute
execute_platform_app(call) ==
    IF ~call.validate
    THEN Returned(FALSE, "Invalid parameters", "empty", "absent", FALSE, FALSE)
    ELSE IF call.build # "ok" THEN Raised(call.build, FALSE)
    ELSE IF call.run.kind = "exit"
    THEN IF call.parse = "ok"
         THEN Returned(call.run.returncode = 0, "absent", "parsed",
                       call.run.returncode, FALSE, TRUE)
         ELSE Returned(FALSE, call.parse, "empty", "absent", FALSE, TRUE)
    ELSE IF call.run.kind = "TimeoutExpired"
    THEN Returned(FALSE, "Tool execution timed out", "empty", "absent", FALSE, TRUE)
    ELSE IF call.run.kind = "FileNotFoundError"
    THEN Returned(FALSE, "Tool not found", "empty", "absent", TRUE, FALSE)
    ELSE Returned(FALSE, call.run.kind, "empty", "absent", FALSE, FALSE)

InitAdapter ==
    /\ IdleDriver
    /\ tasks = <<>>
    /\ task_results = <<>>
    /\ pc = "call"
    /\ output = NoCall
    /\ \E base \in {"app", "platform-app"}, call \in AdapterCalls :
          input = [op |-> "execute", base |-> base, call |-> call]

\* tool.execute(params) (engine.py 221) with either base class
Execute ==
    /\ pc = "call"
    /\ input.op = "execute"
    /\ output' = IF input.base = "app" THEN execute_app(input.call)
                 ELSE execute_platform_app(input.call)
    /\ pc' = "returned"
    /\ UNCHANGED <<driver_vars, tasks, task_results, input>>

SpecAdapter == InitAdapter /\ [][Execute]_vars

\* C20: execute always returns a dict; success is true exactly when
\* validate_parameters accepted, the subprocess ran and exited with code 0
\* and its output was parsed; a rejection returns error "Invalid parameters"
\* without spawning; a timeout returns success false with a timed-out error; a
\* missing executable returns success false with tool_missing true; any other
\* error of the spawn or of the parse returns success false with its text.
C20_ExecuteReportsOutcome ==
    (pc = "returned" /\ input.op = "execute") =>
        LET call == input.call IN
        /\ output.raised = "none"
        /\ output.success <=>
              (call.validate /\ call.run.kind = "exit" /\ call.run.returncode = 0
                 /\ call.parse = "ok")
        /\ ~call.validate =>
              (output.error = "Invalid parameters" /\ ~output.spawned)
        /\ (call.validate /\ call.run.kind = "TimeoutExpired") =>
              output.error = "Tool execution timed out"
        /\ (call.validate /\ call.run.kind = "FileNotFoundError") =>
              output.tool_missing
        /\ (call.validate /\ call.run.kind = "PermissionError") =>
              output.error = call.run.kind
        /\ (call.validate /\ call.run.kind = "exit" /\ call.parse # "ok") =>
              output.error = call.parse

----------------------------------------------------------------------------
(* Priority selection (engine.py 127-143)                                  *)

\* the priorities the tasks of a workflow are drawn from (1..10 in schemas.py)
Priorities == {DefaultPriority, DefaultPriority + 1}

\* every accepted workflow with priorities of Priorities and no optional task
InitPriority ==
    /\ stop_on_failure = FALSE
    /\ \E n \in 1..MaxTasks : \E deps \in [1..n -> SUBSET (1..n)] :
          /\ AcceptedTasks(MakeTasks(n, deps, [i \in 1..n |-> DefaultPriority],
                                     [i \in 1..n |-> FALSE]))
          /\ \E prio \in [1..n -> Priorities] :
                InitWorker(MakeTasks(n, deps, prio, [i \in 1..n |-> FALSE]))

\* a run that is not stopped and meets no database error
NextPriority ==
    \/ StartRun
    \/ Poll
    \/ CloseOut
    \/ StartTask
    \/ TaskSucceeds
    \/ TaskReportsFailure
    \/ TaskRaises
    \/ Finalize
    \/ Commit

SpecPriority == InitPriority /\ [][NextPriority]_vars

\* C21: the task a poll hands to execution is ready, no ready task has a
\* higher priority, and no ready task of the same priority is declared before
\* it; while the scheduler polls or selects, no step row is still running.
C21_PrioritySelection ==
    [][ /\ (pc = "select" /\ pc' = "exec") =>
             /\ is_ready(current', completed_tasks, failed_tasks)
             /\ \A j \in DOMAIN tasks :
                   is_ready(j, completed_tasks, failed_tasks) =>
                       \/ tasks[j].priority < tasks[current'].priority
                       \/ tasks[j].priority = tasks[current'].priority /\ j >= current'
        /\ pc' \in {"poll", "select"} =>
             /\ current' = 0
             /\ \A k \in DOMAIN steps' : steps'[k].status # "running" ]_vars

\* a task is executing although a task declared before it was ready too, with
\* a lower priority, and a ready task of its own priority is declared after it
C21_Witness ==
    /\ pc = "exec"
    /\ \E j \in DOMAIN tasks :
          /\ j < current
          /\ is_ready(j, completed_tasks, failed_tasks)
          /\ tasks[j].priority < tasks[current].priority
    /\ \E j \in DOMAIN tasks :
          /\ j > current
          /\ is_ready(j, completed_tasks, failed_tasks)
          /\ tasks[j].priority = tasks[current].priority

----------------------------------------------------------------------------
(* Scheduler termination (engine.py 97-148)                                *)

\* a worker for every task list the validators accept, lists with a repeated
\* task_id included
InitValidated ==
    /\ stop_on_failure = FALSE
    /\ \E n \in 1..MaxLoadTasks :
          \E ids \in [1..n -> 1..n], deps \in [1..n -> SUBSET (1..n)] :
              /\ AcceptedTasks(SubmittedTasks(n, ids, deps))
              /\ InitWorker(SubmittedTasks(n, ids, deps))

\* a run that meets no database error and may be stopped
NextValidated == NextPriority \/ Stop

\* the worker thread keeps running until run() returns; stop() is up to the user
SpecValidated == InitValidated /\ [][NextValidated]_vars /\ WF_vars(NextPriority)

\* the loop of _execute_workflow was left
LoopExited == pc \in {"finalize", "commit", "done"}

\* C22: the loop of _execute_workflow is left in every run, and when no stop
\* was requested it is left with len(completed) + len(failed) = len(tasks).
C22_SchedulerTermination ==
    /\ <>LoopExited
    /\ [](LoopExited /\ ~stop_requested =>
             Cardinality(completed_tasks) + Cardinality(failed_tasks) = Len(tasks))

----------------------------------------------------------------------------
(* Task failures and the run (engine.py 136-148, 175-181, 255-281)         *)

\* a worker for every accepted workflow with unique task ids, default
\* priorities and no optional task
InitFair ==
    /\ stop_on_failure = FALSE
    /\ \E n \in 1..MaxTasks : \E deps \in [1..n -> SUBSET (1..n)] :
          LET w == MakeTasks(n, deps, [i \in 1..n |-> DefaultPriority],
                             [i \in 1..n |-> FALSE])
          IN AcceptedTasks(w) /\ InitWorker(w)

\* the runs that meet no database error, with a worker thread that keeps
\* running
SpecFair == InitFair /\ [][NextValidated]_vars /\ WF_vars(NextPriority)

\* the dependencies of the i-th task have all completed
DependenciesCompleted(i) ==
    /\ i \in DOMAIN tasks
    /\ tasks[i].depends_on \subseteq completed_tasks

\* C23: whatever tasks failed, a task whose dependencies have all completed
\* is eventually executed unless a stop is requested, and the run never ends
\* in status failed.
C23_FailuresDoNotAbort ==
    /\ \A i \in 1..MaxTasks :
          (DependenciesCompleted(i) /\ pc # "created")
              ~> (stop_requested \/ (i \in DOMAIN tasks /\ Executed(tasks[i].task_id)))
    /\ [](scan.status # "failed")

\* a task failed, a task was executed after it, and the run ended completed
C23_Witness ==
    /\ pc = "done"
    /\ scan.status = "completed"
    /\ \E k \in DOMAIN steps : \E l \in DOMAIN steps :
          k < l /\ steps[k].status = "failed" /\ steps[l].status = "completed"

----------------------------------------------------------------------------
(* Parameter resolver: nested parameters (engine.py 591-604)               *)

\* where a value stands in the parameters: as the value of a key, as an
\* element of a list, as a value of a dict, or as a value of a dict that is an
\* element of a list
Nestings == {"value", "list", "dict", "list_dict"}

\* the parameter holding v at the nesting given
Nested(nesting, v) ==
    IF nesting = "value" THEN v
    ELSE IF nesting = "list" THEN ListValue(<<v>>)
    ELSE IF nesting = "dict" THEN DictValue([k \in {<<"k">>} |-> v])
    ELSE ListValue(<<DictValue([k \in {<<"k">>} |-> v])>>)

\* parameter values that are no reference: a number, a plain string, a string
\* that only starts like a reference, None
OtherScalars ==
    {IntValue(0), StrValue(<<"a">>), StrValue(<<"$", "{", "t">>), NoneValue}

\* one completed task t with some output, and the parameters {"p": ...} with
\* the reference "${t.x}" or another scalar at one of the nestings
InitNested ==
    /\ IdleDriver
    /\ tasks = <<>>
    /\ pc = "call"
    /\ output = NoCall
    /\ \E out \in TaskOutputs :
          task_results = [id \in {<<"t">>} |-> [status |-> "completed", output |-> out]]
    /\ \E nesting \in Nestings,
          leaf \in OtherScalars \cup {StrValue(Reference(<<"t">>, <<<<"x">>>>))} :
          input = [op |-> "_substitute_parameters", nesting |-> nesting, leaf |-> leaf,
                   params |-> [key \in {<<"p">>} |-> Nested(nesting, leaf)]]

SpecNested == InitNested /\ [][Substitute]_vars

\* C24: a "${t.x}" string is replaced by the value the resolver gives for the
\* reference wherever it stands in the parameters (value of a key, element of
\* a list, value of a dict, value of a dict in a list), and any other scalar
\* is returned unchanged in its place.
C24_NestedSubstitution ==
    (pc = "returned" /\ input.op = "_substitute_parameters") =>
        output.substituted[<<"p">>] =
            Nested(input.nesting,
                   IF input.leaf = StrValue(Reference(<<"t">>, <<<<"x">>>>))
                   THEN resolve_reference(input.leaf.chars, task_results)
                   ELSE input.leaf)

----------------------------------------------------------------------------
(* Merge strategies (engine.py 433-475)                                    *)

\* the items of the sources whose data is a list, in the order of the merge
RECURSIVE items_of(_)
items_of(source_results) ==
    IF source_results = <<>> THEN <<>>
    ELSE (IF Head(source_results).data.tag = "list"
          THEN Head(source_results).data.items ELSE <<>>)
         \o items_of(Tail(source_results))

\* the dicts among them that have the key dedupe_key, with any value or
\* only with a value that is not empty
Carrying(nonempty) ==
    SelectSeq(items_of(input.source_results),
              LAMBDA it : /\ it.tag = "dict"
                          /\ input.dedupe_key \in DOMAIN it.map
                          /\ nonempty => ~Falsy(it.map[input.dedupe_key]))

\* the record rec is the combination of the items of group, in their order
CombinationOf(rec, group) ==
    /\ DOMAIN rec = UNION {DOMAIN group[k].map : k \in DOMAIN group}
    /\ \A f \in DOMAIN rec :
          LET having == SelectSeq(group, LAMBDA it : f \in DOMAIN it.map) IN
          IF f \in {"ips", "asns"}
          THEN as_set(rec[f]) = UNION {as_set(having[k].map[f]) : k \in DOMAIN having}
          ELSE rec[f] = having[1].map[f]

\* merged_data is the combination of the items: one record for each key
\* value, combining the items with that value
CombinedFrom(merged_data, items) ==
    LET keys == {items[k].map[input.dedupe_key] : k \in DOMAIN items} IN
    /\ Len(merged_data) = Cardinality(keys)
    /\ \A v \in keys :
          \E k \in DOMAIN merged_data :
              /\ merged_data[k][input.dedupe_key] = v
              /\ CombinationOf(merged_data[k],
                     SelectSeq(items, LAMBDA it : it.map[input.dedupe_key] = v))

\* C25: under combine, merged_data holds one record for each value of the
\* dedupe key carried by a dict item, with the ips and asns of the items of
\* that value united, every other field taken from the first item that has
\* it, and item_count is the number of these records.
C25_CombineEveryKey ==
    (input.op = "_merge_data" /\ input.strategy = "combine"
       /\ pc \in {"merged", "saved", "completed"}) =>
        /\ CombinedFrom(output.merged_data, Carrying(FALSE))
        /\ pc = "completed" => output.item_count = Len(output.merged_data)

\* C26: under append every dict item that carries the dedupe key is in
\* merged_data, in the order of the merge, and item_count is the number of
\* these items.
C26_AppendKeepsEveryItem ==
    (input.op = "_merge_data" /\ input.strategy = "append" /\ pc = "completed") =>
        LET items == Carrying(FALSE) IN
        /\ output.item_count = Len(items)
        /\ output.merged_data = [k \in DOMAIN items |-> items[k].map]

\* C27: when a write of _save_merged_results fails, the merge task still ends
\* completed and its result holds the merged_data.
C27_WriteFailureOnlyLogged ==
    [][ (pc = "merged" /\ pc' \notin {"merged", "saved"}) =>
            /\ output'.status = "completed"
            /\ output'.merged_data = output.merged_data ]_vars

----------------------------------------------------------------------------
(* File output processor (processors/file_output.py, utils/result_utils.py) *)

\* save_list_to_file(items, filepath): True when the file was written, False
\* when mkdir, open or write raised OSError
save_list_to_file(items, write) == write = "ok"

\* the dict returned by FileOutputProcessor.execute; a key the dict does not
\* have is "absent"
FileOutputResult(success, error, items_written) ==
    [success |-> success, error |-> error, items_written |-> items_written]

\* FileOutputProcessor.execute for a call: whether previous_results has the
\* source task and the field, the data of the field, the format parameter,
\* and what the file system does when the file is written
FileOutputProcessor_execute(call) ==
    IF ~call.source_found
    THEN FileOutputResult(FALSE, "Source task not found", "absent")
    ELSE IF ~call.field_found
    THEN FileOutputResult(FALSE, "Field not found", "absent")
    ELSE LET data == IF call.data.tag = "list" THEN call.data.items ELSE <<call.data>> IN
         IF call.format = "json"
         THEN IF call.write = "ok"
              THEN FileOutputResult(TRUE, "absent", Len(data))
              ELSE FileOutputResult(FALSE, call.write, "absent")
         ELSE LET saved == save_list_to_file(data, call.write)
              IN FileOutputResult(TRUE, "absent", Len(data))

\* the data of the source field: a list of at most MaxItems strings, or a
\* value that is not a list
FileOutputData ==
    {ListValue([k \in 1..n |-> StrValue(<<"a">>)]) : n \in 0..MaxItems}
        \cup {StrValue(<<"a">>)}

InitFileOutput ==
    /\ IdleDriver
    /\ tasks = <<>>
    /\ task_results = <<>>
    /\ pc = "call"
    /\ output = NoCall
    /\ \E call \in [source_found : BOOLEAN, field_found : BOOLEAN,
                     data : FileOutputData,
                     format : {"txt", "json", "csv"},
                     write : {"ok", "PermissionError", "IsADirectoryError"}] :
          input = [op |-> "FileOutputProcessor.execute", call |-> call]

\* processor.execute(task, previous_results) of a FILE_OUTPUT task
FileOutput ==
    /\ pc = "call"
    /\ input.op = "FileOutputProcessor.execute"
    /\ output' = FileOutputProcessor_execute(input.call)
    /\ pc' = "returned"
    /\ UNCHANGED <<driver_vars, tasks, task_results, input>>

SpecFileOutput == InitFileOutput /\ [][FileOutput]_vars

\* C28: when the output file cannot be written, in the txt or the json
\* format, execute returns success false with an error and without
\* items_written.
C28_WriteFailureFailsTask ==
    (pc = "returned" /\ input.op = "FileOutputProcessor.execute"
       /\ input.call.write # "ok") =>
        /\ ~output.success
        /\ output.error # "absent"
        /\ output.items_written = "absent"

----------------------------------------------------------------------------
(* Per-task timeout (engine.py 212-221, tools/base.py 66-100)              *)

\* WorkflowTask.timeout: Field(default=300, ge=10, le=7200)
TaskTimeouts == {10, 300, 7200}

\* ToolMetadata.default_timeout of the adapters (300 unless the adapter sets it)
DefaultTimeouts == {300, 600, 1800}

\* the seconds the subprocess would run if it were left alone
Durations == {5, 200, 1000, 8000}

\* base.py line 68: timeout = params.get('timeout', self.metadata.default_timeout)
timeout_of(params, default_timeout) ==
    IF "timeout" \in DOMAIN params THEN params["timeout"] ELSE default_timeout

\* a tool task with its timeout field and its parameters (with or without a
\* "timeout" entry), the adapter's default and the duration of the subprocess
InitTimeout ==
    /\ IdleDriver
    /\ tasks = <<>>
    /\ task_results = <<>>
    /\ pc = "call"
    /\ output = NoCall
    /\ \E timeout \in TaskTimeouts, default_timeout \in DefaultTimeouts,
          duration \in Durations,
          parameters \in {[k \in {"target"} |-> 0]}
                            \cup {[k \in {"target", "timeout"} |-> IF k = "timeout" THEN t ELSE 0] :
                                     t \in {60, 300}} :
          input = [op |-> "_execute_tool_task",
                   task_def |-> [timeout |-> timeout, parameters |-> parameters],
                   default_timeout |-> default_timeout, duration |-> duration]

\* engine.py 212-221 and base.py 66-100: the parameters of the task are handed
\* to tool.execute, which runs the subprocess with timeout_of(params, default);
\* the task fails when subprocess.run raises TimeoutExpired
ExecuteToolTask ==
    /\ pc = "call"
    /\ input.op = "_execute_tool_task"
    /\ LET timeout == timeout_of(input.task_def.parameters, input.default_timeout) IN
          output' = [op |-> "_execute_tool_task", subprocess_timeout |-> timeout,
                     status |-> IF input.duration > timeout THEN "failed" ELSE "completed"]
    /\ pc' = "returned"
    /\ UNCHANGED <<driver_vars, tasks, task_results, input>>

SpecTimeout == InitTimeout /\ [][ExecuteToolTask]_vars

----------------------------------------------------------------------------
(* Progress values (engine.py 114-125, 145-148)                            *)

\* the positions of the progress signals among the events
ProgressPositions == {k \in DOMAIN events : events[k].kind = "progress"}

\* C30: the progress values emitted never decrease, the k-th of them is
\* floor(100 * k / len(tasks)) (one task is added to completed or failed
\* before each), and a run that ended without a stop request and without a
\* driver-level exception emitted 100 as its last progress value.
C30_Progress ==
    LET P == ProgressPositions IN
    /\ \A k \in P : \A l \in P : k < l => events[k].value <= events[l].value
    /\ \A k \in P :
          events[k].value = (100 * Cardinality({l \in P : l <= k})) \div Len(tasks)
    /\ (pc = "done" /\ ~stop_requested /\ ~DriverAborted) =>
          \E k \in P : events[k].value = 100 /\ \A l \in P : l <= k

====
